---- MODULE Spec2Model ----
(***************************************************************************)
(* EX-Installer: the view-switching state machine of the root window       *)
(* (ex_installer.py, EXInstaller.switch_view) and the EX-Turntable         *)
(* configuration view (ex_turntable.py, EXTurntable): version gating,      *)
(* parameter validation and generation of config.h.                        *)
(***************************************************************************)
EXTENDS Integers, Sequences, FiniteSets, TLC

(***************************************************************************)
(* Values                                                                  *)
(***************************************************************************)
\* Python None where a string is expected (view id, product)
None == "None"
\* Python None where an integer is expected (major/minor/patch)
NoneInt == -1
\* Python None / empty string where a version tag is expected; both are falsy
NoVersion == <<>>

\* keys of EXInstaller.views
Views ==
    {"welcome", "manage_arduino_cli", "select_device", "select_product",
     "select_version_config", "ex_commandstation", "compile_upload"}

\* view ids a caller may pass: the registered ones, the two ids that only
\* EXTurntable uses and that the registry lacks, and the falsy ids
RequestIds == Views \cup {"advanced_config", "ex_turntable", None, ""}

Products == {"ex_commandstation", "ex_turntable"}

\* the views the docstring of switch_view lists as requiring a product
ProductScoped == {"compile_upload", "select_version_config"}

\* hasattr(view, "set_product_version"): the views that get version info
HasVersionSetter(cls) == cls \in {"ex_commandstation"}

\* hasattr(view, "product")
HasProductAttr(cls) ==
    cls \in {"select_product", "select_version_config", "compile_upload", "ex_commandstation"}

\* value of self.product after the constructor of a view
InitProduct(cls) == IF cls = "ex_commandstation" THEN "ex_commandstation" ELSE None

\* mutant: "if view_class is not None" instead of "if view_class"
Truthy_NotNone(id) == id # None

\* Python truthiness of a view id
Truthy(id) == id # None /\ id # ""

(***************************************************************************)
(* Version tags and GitClient.extract_version_details                      *)
(* A tag is a sequence of characters; the channel word is one token.       *)
(***************************************************************************)
Digits == {"0", "1", "2", "3", "4", "5", "6", "7", "8", "9"}

DigitVal(c) ==
    CASE c = "0" -> 0 [] c = "1" -> 1 [] c = "2" -> 2 [] c = "3" -> 3 [] c = "4" -> 4
      [] c = "5" -> 5 [] c = "6" -> 6 [] c = "7" -> 7 [] c = "8" -> 8 [] c = "9" -> 9

\* first index >= i of s that holds no digit (Len(s) + 1 when there is none)
RECURSIVE NumEnd(_, _)
NumEnd(s, i) == IF i <= Len(s) /\ s[i] \in Digits THEN NumEnd(s, i + 1) ELSE i

\* decimal value of the digits s[i .. j-1]
RECURSIVE NumVal(_, _, _)
NumVal(s, i, j) == IF j <= i THEN 0 ELSE NumVal(s, i, j - 1) * 10 + DigitVal(s[j - 1])

\* the channel word, case-insensitively Prod or Devel, anything else Unknown
Channel(rest) ==
    IF Len(rest) = 2 /\ rest[1] = "-"
    THEN CASE rest[2] \in {"Prod", "prod", "PROD"} -> "Prod"
           [] rest[2] \in {"Devel", "devel", "DEVEL"} -> "Devel"
           [] OTHER -> "Unknown"
    ELSE "Unknown"

UnknownVersion == [major |-> NoneInt, minor |-> NoneInt, patch |-> NoneInt, channel |-> "Unknown"]

\* mutant: the groups that match are kept when a later group does not
extract_version_details_Partial(tag) ==
    LET a == NumEnd(tag, 2)
        b == NumEnd(tag, a + 1)
    IN  IF Len(tag) >= 1 /\ tag[1] = "v" /\ a > 2
        THEN [major |-> NumVal(tag, 2, a),
              minor |-> IF b > a + 1 /\ a <= Len(tag) /\ tag[a] = "."
                        THEN NumVal(tag, a + 1, b) ELSE NoneInt,
              patch |-> NoneInt, channel |-> "Unknown"]
        ELSE UnknownVersion

\* v<major>.<minor>.<patch>-<channel>, or the unknown-version sentinel
extract_version_details(tag) ==
    LET a == NumEnd(tag, 2)
        b == NumEnd(tag, a + 1)
        c == NumEnd(tag, b + 1)
    IN  IF /\ Len(tag) >= 1 /\ tag[1] = "v"
           /\ a > 2 /\ a <= Len(tag) /\ tag[a] = "."
           /\ b > a + 1 /\ b <= Len(tag) /\ tag[b] = "."
           /\ c > b + 1
        THEN [major |-> NumVal(tag, 2, a), minor |-> NumVal(tag, a + 1, b),
              patch |-> NumVal(tag, b + 1, c),
              channel |-> Channel(SubSeq(tag, c, Len(tag)))]
        ELSE UnknownVersion

\* tags the tag listing may supply
WellFormedTags ==
    { <<"v", "0", ".", "5", ".", "2", "-", "Prod">>,
      <<"v", "0", ".", "6", ".", "1", "-", "Prod">>,
      <<"v", "0", ".", "7", ".", "0", "-", "Devel">>,
      <<"v", "0", ".", "9", ".", "9", "-", "Prod">>,
      <<"v", "0", ".", "1", "0", ".", "0", "-", "prod">>,
      <<"v", "1", ".", "0", ".", "0", "-", "Prod">>,
      <<"v", "4", ".", "2", ".", "1", "-", "rc1">> }

MalformedTags ==
    { <<"m", "a", "i", "n">>,
      <<"0", ".", "6", ".", "0", "-", "Prod">>,
      <<"v", "0", ".", "6", "-", "Prod">>,
      <<"v", "0", ".", "x", ".", "1", "-", "Prod">> }

Tags == WellFormedTags \cup MalformedTags

\* the tags used as the version argument of switch_view
NavTags == { <<"v", "0", ".", "6", ".", "1", "-", "Prod">>, <<"m", "a", "i", "n">> }

(***************************************************************************)
(* Bounds                                                                  *)
(***************************************************************************)
\* switch_view calls made by the user in one run
MaxCalls == 3
\* user and version events on the EX-Turntable view in one run
MaxSteps == 3
\* generate_config passes in one run
MaxPasses == 2
\* user and version events in one run of the gated switches
MaxEdits == 5

(***************************************************************************)
(* The root window: EXInstaller                                            *)
(***************************************************************************)
VARIABLES
    frames,     \* self.frames: view id -> instance (uid 0: no entry)
    view,       \* self.view: uid of the current instance (0: None)
    nextUid,    \* identity of the next instance constructed
    destroyed,  \* uids of the instances destroy() was called on
    request,    \* arguments of the latest switch_view call, and what it found
    outcome,    \* how the latest switch_view call ended
    calls       \* number of switch_view calls made by the user

navvars == <<frames, view, nextUid, destroyed, request, outcome, calls>>

\* a view instance right after its constructor
NewInstance(uid, cls) ==
    [uid |-> uid, cls |-> cls, product |-> InitProduct(cls),
     product_version_name |-> NoVersion,
     product_major_version |-> NoneInt,
     product_minor_version |-> NoneInt,
     product_patch_version |-> NoneInt,
     edited |-> FALSE, gridded |-> FALSE, error |-> <<>>]

NoInstance == NewInstance(0, "")

\* view_class in self.frames
Cached(fr, view_class) == view_class \in Views /\ fr[view_class].uid # 0

\* the instance self.view refers to
ViewInstance(fr, vw) ==
    IF \E id \in Views : fr[id].uid = vw /\ vw # 0
    THEN fr[CHOOSE id \in Views : fr[id].uid = vw]
    ELSE NoInstance

\* set_product of SelectVersionConfig and CompileUpload
set_product(obj, product) == [obj EXCEPT !.product = product]

\* the version fields set_product_version stores
StoreVersion(obj, version, major, minor, patch) ==
    [obj EXCEPT
        !.product_version_name = version,
        !.product_major_version = IF major # NoneInt THEN major ELSE @,
        !.product_minor_version = IF major # NoneInt /\ minor # NoneInt THEN minor ELSE @,
        !.product_patch_version =
            IF major # NoneInt /\ minor # NoneInt /\ patch # NoneInt THEN patch ELSE @]

\* mutant: compile_upload is recreated only when the product changes
MustRecreate_ProductChangeOnly(view_class, product, calling_product) ==
    view_class \in ProductScoped /\ product # calling_product

\* mutant: select_version_config is recreated on every request
MustRecreate_Always(view_class, product, calling_product) ==
    view_class \in ProductScoped

\* mutant: only compile_upload is ever recreated
MustRecreate_CompileUploadOnly(view_class, product, calling_product) ==
    view_class = "compile_upload"

\* the branch of switch_view that destroys and reconstructs a cached view
MustRecreate(view_class, product, calling_product) ==
    \/ view_class = "compile_upload"
    \/ (view_class = "select_version_config" /\ product # calling_product)

\* calling_product of switch_view
CallingProduct(fr, vw) ==
    IF vw # 0 /\ HasProductAttr(ViewInstance(fr, vw).cls)
    THEN ViewInstance(fr, vw).product
    ELSE None

NavState(fr, vw, nu, ds, oc) ==
    [frames |-> fr, view |-> vw, nextUid |-> nu, destroyed |-> ds, outcome |-> oc]

\* mutant: the new instance never gets its product
InjectProduct_Skipped(obj, product, inject_product) == obj

\* self.view.set_product(product) on a new instance, for the views that take one
InjectProduct(obj, product, inject_product) ==
    IF inject_product THEN set_product(obj, product) ELSE obj

\* mutant: the cache is replaced by one holding the new instance only
Construct_ClearsCache(fr, nu, ds, view_class, product, version, inject_product) ==
    NavState([id \in Views |->
                 IF id = view_class
                 THEN [set_product(NewInstance(nu, view_class), product) EXCEPT !.gridded = TRUE]
                 ELSE NoInstance],
             nu, nu + 1, ds, "ok")

\* a freshly constructed instance registered under view_class, then given
\* its product and version; version_details is unbound when version is falsy
Construct(fr, nu, ds, view_class, product, version, inject_product) ==
    LET vd == extract_version_details(version)
        made == NewInstance(nu, view_class)
        withProduct == InjectProduct(made, product, inject_product)
    IN  IF HasVersionSetter(view_class) /\ version = NoVersion
        THEN NavState([fr EXCEPT ![view_class] = withProduct], nu, nu + 1, ds,
                      "UnboundLocalError")
        ELSE LET withVersion ==
                     IF HasVersionSetter(view_class)
                     THEN StoreVersion(withProduct, version, vd.major, vd.minor, vd.patch)
                     ELSE withProduct
             IN  NavState([fr EXCEPT ![view_class] = [withVersion EXCEPT !.gridded = TRUE]],
                          nu, nu + 1, ds, "ok")

\* mutant: the version hook is called on every reuse, version or not
Reuse_AlwaysStoresVersion(fr, nu, ds, view_class, product, version) ==
    LET vd == extract_version_details(version)
        obj == fr[view_class]
        withProduct ==
            IF view_class = "select_version_config" THEN set_product(obj, product) ELSE obj
        withVersion ==
            IF HasVersionSetter(view_class)
            THEN StoreVersion(withProduct, version, vd.major, vd.minor, vd.patch)
            ELSE withProduct
    IN  NavState([fr EXCEPT ![view_class] = withVersion], obj.uid, nu, ds, "ok")

\* a cached instance brought back to the front
Reuse(fr, nu, ds, view_class, product, version) ==
    LET vd == extract_version_details(version)
        obj == fr[view_class]
        withProduct ==
            IF view_class = "select_version_config" THEN set_product(obj, product) ELSE obj
        withVersion ==
            IF version # NoVersion /\ HasVersionSetter(view_class)
            THEN StoreVersion(withProduct, version, vd.major, vd.minor, vd.patch)
            ELSE withProduct
    IN  NavState([fr EXCEPT ![view_class] = withVersion], obj.uid, nu, ds, "ok")

\* EXInstaller.switch_view: the state it leaves and how it ended
switch_view(fr, vw, nu, ds, view_class, product, version) ==
    IF ~Truthy(view_class)
    THEN NavState(fr, vw, nu, ds, "ok")
    ELSE IF Cached(fr, view_class)
    THEN IF MustRecreate(view_class, product, CallingProduct(fr, vw))
         THEN Construct(fr, nu, ds \cup {fr[view_class].uid}, view_class, product, version, TRUE)
         ELSE Reuse(fr, nu, ds, view_class, product, version)
    ELSE IF view_class \notin Views
    THEN NavState(fr, vw, nu, ds, "KeyError")
    ELSE Construct(fr, nu, ds, view_class, product, version, view_class \in ProductScoped)

\* the local version_details of switch_view while no version was parsed
Unbound == [major |-> NoneInt, minor |-> NoneInt, patch |-> NoneInt, channel |-> "unbound"]

\* the arguments of a switch_view call, with what the call finds on entry:
\* the view it switches from, the locals version_details and
\* calling_product, and the instance cached under view_class
Request(fr, vw, view_class, product, version) ==
    [view_class |-> view_class, product |-> product, version |-> version,
     version_details |-> IF Truthy(view_class) /\ version # NoVersion
                         THEN extract_version_details(version) ELSE Unbound,
     calling_view |-> ViewInstance(fr, vw).cls,
     calling_product |-> CallingProduct(fr, vw),
     cached_uid |-> IF Cached(fr, view_class) THEN fr[view_class].uid ELSE 0]

\* the versions a caller passes: none, or a tag of the tag listing
NavVersions == {NoVersion} \cup NavTags

\* the products a caller passes with a view id: the views that require a
\* product always get one
NavProducts(view_class) ==
    IF view_class \in ProductScoped THEN Products
    ELSE IF view_class = "advanced_config" THEN Products
    ELSE {None}

NavInit ==
    LET s == switch_view([id \in Views |-> NoInstance], 0, 1, {}, "welcome", None, NoVersion)
    IN  /\ frames = s.frames
        /\ view = s.view
        /\ nextUid = s.nextUid
        /\ destroyed = s.destroyed
        /\ outcome = s.outcome
        /\ request = Request([id \in Views |-> NoInstance], 0, "welcome", None, NoVersion)
        /\ calls = 0

\* a button or another view calls switch_view
SwitchView ==
    /\ calls < MaxCalls
    /\ \E view_class \in RequestIds :
       \E product \in NavProducts(view_class) :
       \E version \in NavVersions :
          LET s == switch_view(frames, view, nextUid, destroyed, view_class, product, version)
          IN  /\ frames' = s.frames
              /\ view' = s.view
              /\ nextUid' = s.nextUid
              /\ destroyed' = s.destroyed
              /\ outcome' = s.outcome
              /\ request' = Request(frames, view, view_class, product, version)
              /\ calls' = calls + 1

\* the user enters something in the current view: its in-progress edits
EditView ==
    /\ view # 0
    /\ ~ViewInstance(frames, view).edited
    /\ frames' = [frames EXCEPT ![ViewInstance(frames, view).cls].edited = TRUE]
    /\ UNCHANGED <<view, nextUid, destroyed, request, outcome, calls>>

(***************************************************************************)
(* The EX-Turntable configuration view: EXTurntable                        *)
(* EXInstaller.views has no entry that constructs it, so the model holds   *)
(* the one instance whose parent (self.master) is the root window, and     *)
(* takes the product_details entry its constructor reads as present.       *)
(* The text of an entry widget is a sequence of characters.                *)
(***************************************************************************)
VARIABLES
    tt,           \* the widgets and attributes of the EXTurntable instance
    config_file,  \* the lines of config.h on disk (<<>>: not written)
    last,         \* what the latest generate_config pass did
    passes,       \* number of generate_config passes
    steps,        \* number of user and version events on the view
    log           \* the passes that built a whole directive list, for comparing passes

ttvars == <<tt, config_file, last, passes, steps, log>>

\* int(text) succeeds: an optional sign followed by digits only
IsInt(text) ==
    LET body == IF Len(text) >= 1 /\ text[1] \in {"-", "+"} THEN Tail(text) ELSE text
    IN  Len(body) >= 1 /\ \A i \in 1..Len(body) : body[i] \in Digits

\* int(text) when it succeeds
IntOf(text) ==
    IF text[1] = "-" THEN 0 - NumVal(text, 2, Len(text) + 1)
    ELSE IF text[1] = "+" THEN NumVal(text, 2, Len(text) + 1)
    ELSE NumVal(text, 1, Len(text) + 1)

\* the placeholder of the stepper driver combo box
SelectStepperDriver == "Select stepper driver"

\* EXTurntable.__init__ and setup_config_frame, up to the toggles it sets
\* at the end: check_stepper disables Next, set_mode (TURNTABLE) disables
\* the limit switch and sets the forward/reverse only switches to normal
NewTurntable ==
    [uid |-> 0, cls |-> "ex_turntable", product |-> "ex_turntable",
     product_version_name |-> NoVersion,
     product_major_version |-> NoneInt,
     product_minor_version |-> NoneInt,
     product_patch_version |-> NoneInt,
     i2c_address |-> <<"6", "0">>,
     mode_switch |-> "TURNTABLE",
     sensor_test_switch |-> "off",
     home_switch |-> "LOW",
     limit_switch |-> "LOW",
     limit_switch_state |-> "disabled",
     relay_switch |-> "HIGH",
     auto_switch |-> "AUTO",
     phase_angle |-> <<"4", "5">>,
     phase_angle_entry_state |-> "normal",
     stepper_combo |-> SelectStepperDriver,
     disable_idle_switch |-> "on",
     speed |-> <<"2", "0", "0">>,
     accel |-> <<"2", "5">>,
     gearing |-> <<"1">>,
     gearing_entry_state |-> "normal",
     invert_dir_switch |-> "off", invert_dir_switch_state |-> "normal",
     invert_step_switch |-> "off", invert_step_switch_state |-> "normal",
     invert_enable_switch |-> "off", invert_enable_switch_state |-> "normal",
     forward_only_switch |-> "off", forward_only_switch_state |-> "normal",
     reverse_only_switch |-> "off", reverse_only_switch_state |-> "normal",
     led_fast |-> <<"1", "0", "0">>, led_fast_switch |-> "off",
     led_slow |-> <<"5", "0", "0">>, led_slow_switch |-> "off",
     debug_switch |-> "off",
     sanity_steps |-> <<"1", "0", "0", "0", "0">>, sanity_steps_switch |-> "off",
     home_sensitivity |-> <<"3", "0", "0">>, home_sensitivity_switch |-> "off",
     full_step_count |-> <<"4", "0", "9", "6">>, full_step_count_switch |-> "off",
     debounce_delay |-> <<"1", "0">>, debounce_delay_switch |-> "off",
     advanced_config_enabled |-> "off",
     next_text |-> "Compile and load",
     next_enabled |-> FALSE,
     stepper_list |-> <<>>,
     error |-> <<>>]

\* CTkSwitch.deselect(): a disabled switch keeps its value
Deselect(value, state) == IF state # "disabled" THEN "off" ELSE value

\* CTkSwitch.toggle(): the click of the user; a disabled switch ignores it
Flip(value, on, off) == IF value = on THEN off ELSE on

\* set_product_version raises TypeError when it compares None with a number
VersionCompareRaises(obj) ==
    obj.product_major_version = 0 /\ obj.product_minor_version = NoneInt

\* the features set_product_version disables before 0.6.0
Pre060(obj) == obj.product_major_version = 0 /\ obj.product_minor_version < 6

\* mutant: the minor number is compared whatever the major number is
Pre070_MinorOnly(obj) == obj.product_minor_version < 7

\* the features set_product_version disables before 0.7.0
Pre070(obj) == obj.product_major_version = 0 /\ obj.product_minor_version < 7

\* lines 94-101: the gearing factor
GateGearing(obj) ==
    IF Pre060(obj)
    THEN [obj EXCEPT !.gearing_entry_state = "disabled", !.gearing = <<"1">>]
    ELSE [obj EXCEPT !.gearing_entry_state = "normal"]

\* lines 102-119: the invert and rotate switches
GateSwitches(obj) ==
    IF Pre070(obj)
    THEN [obj EXCEPT
            !.invert_dir_switch = Deselect(@, obj.invert_dir_switch_state),
            !.invert_dir_switch_state = "disabled",
            !.invert_step_switch = Deselect(@, obj.invert_step_switch_state),
            !.invert_step_switch_state = "disabled",
            !.invert_enable_switch = Deselect(@, obj.invert_enable_switch_state),
            !.invert_enable_switch_state = "disabled",
            !.forward_only_switch = Deselect(@, obj.forward_only_switch_state),
            !.forward_only_switch_state = "disabled",
            !.reverse_only_switch = Deselect(@, obj.reverse_only_switch_state),
            !.reverse_only_switch_state = "disabled"]
    ELSE [obj EXCEPT
            !.invert_dir_switch_state = "normal",
            !.invert_step_switch_state = "normal",
            !.invert_enable_switch_state = "normal",
            !.forward_only_switch_state = "normal",
            !.reverse_only_switch_state = "normal"]

\* EXTurntable.set_product_version(version, major, minor, patch)
set_product_version(obj, version, major, minor, patch) ==
    LET stored == StoreVersion(obj, version, major, minor, patch)
    IN  IF VersionCompareRaises(stored) THEN stored
        ELSE GateSwitches(GateGearing(stored))

\* EXTurntable.set_mode, after the mode switch took its new value
set_mode(obj) ==
    IF obj.mode_switch = "TURNTABLE"
    THEN [obj EXCEPT !.limit_switch_state = "disabled",
                     !.forward_only_switch_state = "normal",
                     !.reverse_only_switch_state = "normal"]
    ELSE [obj EXCEPT !.limit_switch_state = "normal",
                     !.forward_only_switch = Deselect(@, obj.forward_only_switch_state),
                     !.forward_only_switch_state = "disabled",
                     !.reverse_only_switch = Deselect(@, obj.reverse_only_switch_state),
                     !.reverse_only_switch_state = "disabled"]

\* mutant: turning forward-only on leaves reverse-only as it is
set_forward_only_KeepsReverse(obj) == obj

\* EXTurntable.set_forward_only
set_forward_only(obj) ==
    IF obj.reverse_only_switch = "on"
    THEN [obj EXCEPT !.reverse_only_switch = Deselect(@, obj.reverse_only_switch_state)]
    ELSE obj

\* EXTurntable.set_reverse_only
set_reverse_only(obj) ==
    IF obj.forward_only_switch = "on"
    THEN [obj EXCEPT !.forward_only_switch = Deselect(@, obj.forward_only_switch_state)]
    ELSE obj

\* EXTurntable.get_steppers: def_list is what standard_steppers.h yields
get_steppers(obj, def_list) == [obj EXCEPT !.stepper_list = def_list]

\* EXTurntable.check_stepper
check_stepper(obj, value) == [obj EXCEPT !.next_enabled = (value # SelectStepperDriver)]

\* EXTurntable.set_advanced_config
set_advanced_config(obj) ==
    [obj EXCEPT !.next_text =
        IF obj.advanced_config_enabled = "on" THEN "Edit config" ELSE "Compile and load"]


(***************************************************************************)
(* EXTurntable.generate_config                                             *)
(* A line of config.h: "#define name value" or "// #define name value".    *)
(***************************************************************************)
Define(name, value) == [active |-> TRUE, name |-> name, value |-> value]
Commented(name, value) == [active |-> FALSE, name |-> name, value |-> value]

\* what the code of one parameter appends: errors and lines
Appends(err, cfg) == [err |-> err, cfg |-> cfg]

\* a switch that emits a bare directive or its commented-out form
SwitchLine(value, name) ==
    IF value = "on" THEN Appends(<<>>, <<Define(name, <<>>)>>)
    ELSE Appends(<<>>, <<Commented(name, <<>>)>>)

\* try: int(text), then the range check, then the directive
BoundedInt(text, lo, hi, name, notNumeric, outOfRange) ==
    IF ~IsInt(text) THEN Appends(<<notNumeric>>, <<>>)
    ELSE IF IntOf(text) < lo \/ IntOf(text) > hi THEN Appends(<<outOfRange>>, <<>>)
    ELSE Appends(<<>>, <<Define(name, text)>>)

\* an advanced override: the entered value when its switch is on
Override(switch, text, name, notNumeric, default) ==
    IF switch = "on"
    THEN IF ~IsInt(text) THEN Appends(<<notNumeric>>, <<>>)
         ELSE Appends(<<>>, <<Define(name, text)>>)
    ELSE Appends(<<>>, <<default>>)

\* mutant: the switch is read whether or not it is enabled
RotateOnly_IgnoresState(state, value, mode, name, incompatible) ==
    IF value = "on"
    THEN IF mode = "TRAVERSER" THEN Appends(<<incompatible>>, <<>>)
         ELSE Appends(<<>>, <<Define(name, <<>>)>>)
    ELSE Appends(<<>>, <<Commented(name, <<>>)>>)

\* forward/reverse only: the cross-field rule with the mode
RotateOnly(state, value, mode, name, incompatible) ==
    IF state # "normal" THEN Appends(<<>>, <<>>)
    ELSE IF value = "on"
    THEN IF mode = "TRAVERSER" THEN Appends(<<incompatible>>, <<>>)
         ELSE Appends(<<>>, <<Define(name, <<>>)>>)
    ELSE Appends(<<>>, <<Commented(name, <<>>)>>)

I2CRangeError == "I2C address must be between 0x8 and 0x77"

\* mutant: the range check accepts every address up to 77
I2CAddress_NoLowerBound(text) ==
    IF IntOf(text) > 77
    THEN Appends(<<I2CRangeError>>, <<>>)
    ELSE Appends(<<>>, <<Define("I2C_ADDRESS", <<"0x">> \o text)>>)

\* lines 770-774: the I2C address, once int(text) has succeeded
I2CAddress(text) ==
    IF IntOf(text) < 8 \/ IntOf(text) > 77
    THEN Appends(<<I2CRangeError>>, <<>>)
    ELSE Appends(<<>>, <<Define("I2C_ADDRESS", <<"0x">> \o text)>>)

\* lines 770-917 in order: what each parameter appends
ParameterAppends(obj) ==
    << \* 770-774
       I2CAddress(obj.i2c_address),
       \* 775
       Appends(<<>>, <<Define("TURNTABLE_EX_MODE", <<obj.mode_switch>>)>>),
       \* 776-779
       SwitchLine(obj.sensor_test_switch, "SENSOR_TESTING"),
       \* 780-783
       Appends(<<>>, <<Define("HOME_SENSOR_ACTIVE_STATE", <<obj.home_switch>>),
                       Define("LIMIT_SENSOR_ACTIVE_STATE", <<obj.limit_switch>>),
                       Define("RELAY_ACTIVE_STATE", <<obj.relay_switch>>),
                       Define("PHASE_SWITCHING", <<obj.auto_switch>>)>>),
       \* 784-794
       IF obj.auto_switch = "AUTO"
       THEN BoundedInt(obj.phase_angle, 0, 180, "PHASE_SWITCH_ANGLE",
                       "Phase switch angle must be between 0 and 180",
                       "Phase switch angle must be between 0 and 180")
       ELSE Appends(<<>>, <<>>),
       \* 795-798
       IF obj.stepper_combo = SelectStepperDriver
       THEN Appends(<<"You must select a stepper driver">>, <<>>)
       ELSE Appends(<<>>, <<Define("STEPPER_DRIVER", <<obj.stepper_combo>>)>>),
       \* 799-800
       IF obj.disable_idle_switch = "on"
       THEN Appends(<<>>, <<Define("DISABLE_OUTPUTS_IDLE", <<>>)>>)
       ELSE Appends(<<>>, <<>>),
       \* 801-809
       BoundedInt(obj.speed, 10, 20000, "STEPPER_MAX_SPEED",
                  "You must provide a numeric speed value",
                  "Speed must be between 10 and 20000"),
       \* 810-818
       BoundedInt(obj.accel, 1, 1000, "STEPPER_ACCELERATION",
                  "You must provide a numeric acceleration value",
                  "Acceleration must be between 1 and 1000"),
       \* 819-828
       IF obj.gearing_entry_state = "normal"
       THEN BoundedInt(obj.gearing, 1, 10, "STEPPER_GEARING_FACTOR",
                       "You must provide a numeric gearing factor",
                       "Gearing factor must be between 1 and 10")
       ELSE Appends(<<>>, <<>>),
       \* 829-843
       IF obj.invert_dir_switch_state = "normal"
       THEN SwitchLine(obj.invert_dir_switch, "INVERT_DIRECTION") ELSE Appends(<<>>, <<>>),
       IF obj.invert_step_switch_state = "normal"
       THEN SwitchLine(obj.invert_step_switch, "INVERT_STEP") ELSE Appends(<<>>, <<>>),
       IF obj.invert_enable_switch_state = "normal"
       THEN SwitchLine(obj.invert_enable_switch, "INVERT_ENABLE") ELSE Appends(<<>>, <<>>),
       \* 844-859
       RotateOnly(obj.forward_only_switch_state, obj.forward_only_switch, obj.mode_switch,
                  "ROTATE_FORWARD_ONLY",
                  "Traverser mode is incompatible with forward only rotation"),
       RotateOnly(obj.reverse_only_switch_state, obj.reverse_only_switch, obj.mode_switch,
                  "ROTATE_REVERSE_ONLY",
                  "Traverser mode is incompatible with reverse only rotation"),
       \* 860-877
       Override(obj.led_fast_switch, obj.led_fast, "LED_FAST",
                "Fast LED delay must be numeric", Define("LED_FAST", <<"1", "0", "0">>)),
       Override(obj.led_slow_switch, obj.led_slow, "LED_SLOW",
                "Slow LED delay must be numeric", Define("LED_SLOW", <<"5", "0", "0">>)),
       \* 878-881
       SwitchLine(obj.debug_switch, "DEBUG"),
       \* 882-917
       Override(obj.sanity_steps_switch, obj.sanity_steps, "SANITY_STEPS",
                "Sanity step count must be numeric",
                Commented("SANITY_STEPS", <<"1", "0", "0", "0", "0">>)),
       Override(obj.home_sensitivity_switch, obj.home_sensitivity, "HOME_SENSITIVITY",
                "Home sensitivity step count must be numeric",
                Commented("HOME_SENSITIVITY", <<"3", "0", "0">>)),
       Override(obj.full_step_count_switch, obj.full_step_count, "FULL_STEP_COUNT",
                "Full step count must be numeric",
                Commented("FULL_STEP_COUNT", <<"4", "0", "9", "6">>)),
       Override(obj.debounce_delay_switch, obj.debounce_delay, "DEBOUNCE_DELAY",
                "Debounce delay must be numeric",
                Commented("DEBOUNCE_DELAY", <<"1", "0">>)) >>

RECURSIVE ParamErrors(_, _)
ParamErrors(apps, n) == IF n = 0 THEN <<>> ELSE ParamErrors(apps, n - 1) \o apps[n].err

RECURSIVE ConfigList(_, _)
ConfigList(apps, n) == IF n = 0 THEN <<>> ELSE ConfigList(apps, n - 1) \o apps[n].cfg

\* param_errors and config_list at line 918
param_errors(obj) == ParamErrors(ParameterAppends(obj), Len(ParameterAppends(obj)))
config_list(obj) == ConfigList(ParameterAppends(obj), Len(ParameterAppends(obj)))

\* line 770 raises ValueError before anything is appended
I2CRaises(obj) == ~IsInt(obj.i2c_address)

\* mutant: the header comment is added after the directives
file_contents_HeaderLast(obj) ==
    config_list(obj)
    \o <<Commented("config.h - Generated by EX-Installer",
                   <<"app_version", "EX-Turntable">> \o obj.product_version_name)>>

\* lines 923-926: the header comment, then the directives
file_contents(obj) ==
    <<Commented("config.h - Generated by EX-Installer",
                <<"app_version", "EX-Turntable">> \o obj.product_version_name)>>
    \o config_list(obj)

\* lines 933-936: the view requested after config.h is written
NextViewAfterWrite(obj) ==
    IF obj.advanced_config_enabled = "on" THEN "advanced_config" ELSE "compile_upload"

\* len(param_errors) > 0
HasErrors(obj) == Len(param_errors(obj)) > 0

\* what the latest generate_config pass did
Pass(result, errors, write_attempted, requested) ==
    [result |-> result, param_errors |-> errors, write_attempted |-> write_attempted,
     requested |-> requested]

\* mutant: showing an error resets the entries and switches as well
process_error_ResetsView(obj, message) == [NewTurntable EXCEPT !.error = message]

\* process_error(message): the message shown in the error frame
process_error(obj, message) == [obj EXCEPT !.error = message]

\* mutant: clearing the error frame resets the entries and switches as well
process_stop_ResetsView(obj) == NewTurntable

\* process_stop(): the error frame is cleared
process_stop(obj) == [obj EXCEPT !.error = <<>>]

WriteError == "Could not write config.h"

TurntableInit ==
    /\ tt = NewTurntable
    /\ log = <<>>
    /\ config_file = <<>>
    /\ last = Pass("none", <<>>, FALSE, None)
    /\ passes = 0
    /\ steps = 0

\* the Next button: generate_config; write_ok is whether write_config_file
\* returns the path it was given
GenerateConfig ==
    /\ passes < MaxPasses
    /\ passes' = passes + 1
    /\ UNCHANGED <<steps, calls>>
    /\ \E write_ok \in BOOLEAN :
        IF I2CRaises(tt)
        THEN /\ last' = Pass("ValueError", <<>>, FALSE, None)
             /\ UNCHANGED <<tt, config_file, frames, view, nextUid, destroyed, request, outcome>>
        ELSE IF HasErrors(tt)
        THEN /\ tt' = process_error(tt, param_errors(tt))
             /\ last' = Pass("errors", param_errors(tt), FALSE, None)
             /\ UNCHANGED <<config_file, frames, view, nextUid, destroyed, request, outcome>>
        ELSE IF ~write_ok
        THEN /\ tt' = process_error(process_stop(tt), <<WriteError>>)
             /\ last' = Pass("write_failed", <<>>, TRUE, None)
             /\ UNCHANGED <<config_file, frames, view, nextUid, destroyed, request, outcome>>
        ELSE LET s == switch_view(frames, view, nextUid, destroyed,
                                  NextViewAfterWrite(tt), tt.product, NoVersion)
             IN  /\ tt' = process_stop(tt)
                 /\ config_file' = file_contents(tt)
                 /\ last' = Pass("written", <<>>, TRUE, NextViewAfterWrite(tt))
                 /\ frames' = s.frames
                 /\ view' = s.view
                 /\ nextUid' = s.nextUid
                 /\ destroyed' = s.destroyed
                 /\ outcome' = s.outcome
                 /\ request' = Request(frames, view, NextViewAfterWrite(tt), tt.product,
                                       NoVersion)

\* one user or version event on the view
TurntableEvent(new) ==
    /\ steps < MaxSteps
    /\ steps' = steps + 1
    /\ tt' = new
    /\ UNCHANGED <<config_file, last, passes, log>>
    /\ UNCHANGED navvars

\* the stepper definitions standard_steppers.h holds
StandardSteppers == <<"ULN2003_HALF_CW", "A4988">>

\* the version hook: set_product_version(version, *version_details)
SetProductVersion ==
    \E version \in Tags :
        LET vd == extract_version_details(version)
        IN  TurntableEvent(set_product_version(get_steppers(tt, StandardSteppers), version,
                                               vd.major, vd.minor, vd.patch))

\* texts the user types into the I2C address entry
I2CTexts == { <<"5">>, <<"8">>, <<"7", "8">>, <<"6", "A">> }

TypeI2CAddress == \E text \in I2CTexts : TurntableEvent([tt EXCEPT !.i2c_address = text])

\* texts the user types into the speed entry
SpeedTexts == { <<"5">>, <<"4", "0", "0", "0">>, <<"f", "a", "s", "t">> }

TypeSpeed == \E text \in SpeedTexts : TurntableEvent([tt EXCEPT !.speed = text])

\* the stepper drivers the combo box offers
StepperChoices == {SelectStepperDriver, "A4988"}

SelectStepper ==
    \E value \in StepperChoices :
        TurntableEvent(check_stepper([tt EXCEPT !.stepper_combo = value], value))

ToggleMode ==
    TurntableEvent(set_mode([tt EXCEPT !.mode_switch = Flip(@, "TRAVERSER", "TURNTABLE")]))

ToggleForwardOnly ==
    /\ tt.forward_only_switch_state = "normal"
    /\ TurntableEvent(set_forward_only([tt EXCEPT !.forward_only_switch = Flip(@, "on", "off")]))

ToggleReverseOnly ==
    /\ tt.reverse_only_switch_state = "normal"
    /\ TurntableEvent(set_reverse_only([tt EXCEPT !.reverse_only_switch = Flip(@, "on", "off")]))

ToggleAdvancedConfig ==
    TurntableEvent(set_advanced_config(
        [tt EXCEPT !.advanced_config_enabled = Flip(@, "on", "off")]))

(***************************************************************************)
(* The gated switches: the version hook, the mode and the rotation         *)
(* switches over longer runs, with a log of the passes                     *)
(***************************************************************************)
\* the values generate_config reads from the entries and switches
ParameterValues(obj) ==
    <<obj.i2c_address, obj.mode_switch, obj.sensor_test_switch, obj.home_switch,
      obj.limit_switch, obj.relay_switch, obj.auto_switch, obj.phase_angle,
      obj.stepper_combo, obj.disable_idle_switch, obj.speed, obj.accel, obj.gearing,
      obj.invert_dir_switch, obj.invert_step_switch, obj.invert_enable_switch,
      obj.forward_only_switch, obj.reverse_only_switch,
      obj.led_fast_switch, obj.led_fast, obj.led_slow_switch, obj.led_slow,
      obj.debug_switch, obj.sanity_steps_switch, obj.sanity_steps,
      obj.home_sensitivity_switch, obj.home_sensitivity,
      obj.full_step_count_switch, obj.full_step_count,
      obj.debounce_delay_switch, obj.debounce_delay>>

\* the version the view holds
StoredVersion(obj) ==
    <<obj.product_version_name, obj.product_major_version,
      obj.product_minor_version, obj.product_patch_version>>

\* a pass as the log keeps it: its result, the parameter values and version
\* it ran on, and the directive list it built
LogEntry(obj, result) ==
    [result |-> result, values |-> ParameterValues(obj), version |-> StoredVersion(obj),
     config_list |-> IF result = "ValueError" THEN <<>> ELSE config_list(obj)]

\* one user or version event on the view, in a run of up to MaxEdits events
GateEvent(new) ==
    /\ steps < MaxEdits
    /\ steps' = steps + 1
    /\ tt' = new
    /\ UNCHANGED <<config_file, last, passes, log>>
    /\ UNCHANGED navvars

\* the versions on either side of the 0.7.0 threshold
GateTags ==
    { <<"v", "0", ".", "6", ".", "1", "-", "Prod">>,
      <<"v", "0", ".", "7", ".", "0", "-", "Devel">> }

GateVersion ==
    \E version \in GateTags :
        LET vd == extract_version_details(version)
        IN  GateEvent(set_product_version(get_steppers(tt, StandardSteppers), version,
                                          vd.major, vd.minor, vd.patch))

GateMode ==
    GateEvent(set_mode([tt EXCEPT !.mode_switch = Flip(@, "TRAVERSER", "TURNTABLE")]))

GateForwardOnly ==
    /\ tt.forward_only_switch_state = "normal"
    /\ GateEvent(set_forward_only([tt EXCEPT !.forward_only_switch = Flip(@, "on", "off")]))

GateReverseOnly ==
    /\ tt.reverse_only_switch_state = "normal"
    /\ GateEvent(set_reverse_only([tt EXCEPT !.reverse_only_switch = Flip(@, "on", "off")]))

GateStepper ==
    GateEvent(check_stepper([tt EXCEPT !.stepper_combo = "A4988"], "A4988"))

GateI2CAddress == GateEvent([tt EXCEPT !.i2c_address = <<"6", "A">>])

\* generate_config, with the pass appended to the log
GatePass ==
    /\ GenerateConfig
    /\ log' = Append(log, LogEntry(tt, last'.result))

(***************************************************************************)
(* The I2C address buttons and the Next button                             *)
(***************************************************************************)
\* str(n) for a natural number n
RECURSIVE StrOf(_)
StrOf(n) ==
    LET d == CHOOSE c \in Digits : DigitVal(c) = n % 10
    IN  IF n < 10 THEN <<d>> ELSE Append(StrOf(n \div 10), d)

\* mutant: an address out of range is reported but left as it is
validate_i2c_address_NoClamp(obj) ==
    IF ~IsInt(obj.i2c_address) THEN obj
    ELSE IF IntOf(obj.i2c_address) < 8 \/ IntOf(obj.i2c_address) > 77
    THEN [process_error(obj, <<I2CRangeError>>) EXCEPT !.next_enabled = FALSE]
    ELSE [process_stop(obj) EXCEPT !.next_enabled = TRUE]

\* EXTurntable.validate_i2c_address; int() of a text that is no integer
\* raises ValueError before anything is changed
validate_i2c_address(obj) ==
    IF ~IsInt(obj.i2c_address) THEN obj
    ELSE IF IntOf(obj.i2c_address) < 8
    THEN [process_error(obj, <<I2CRangeError>>) EXCEPT
             !.i2c_address = StrOf(8), !.next_enabled = FALSE]
    ELSE IF IntOf(obj.i2c_address) > 77
    THEN [process_error(obj, <<I2CRangeError>>) EXCEPT
             !.i2c_address = StrOf(77), !.next_enabled = FALSE]
    ELSE [process_stop(obj) EXCEPT !.next_enabled = TRUE]

\* EXTurntable.decrement_address
decrement_address(obj) ==
    IF ~IsInt(obj.i2c_address) THEN obj
    ELSE IF IntOf(obj.i2c_address) > 8
    THEN validate_i2c_address([obj EXCEPT !.i2c_address = StrOf(IntOf(obj.i2c_address) - 1)])
    ELSE validate_i2c_address(obj)

\* EXTurntable.increment_address
increment_address(obj) ==
    IF ~IsInt(obj.i2c_address) THEN obj
    ELSE IF IntOf(obj.i2c_address) < 77
    THEN validate_i2c_address([obj EXCEPT !.i2c_address = StrOf(IntOf(obj.i2c_address) + 1)])
    ELSE validate_i2c_address(obj)

\* the - button
DecrementAddress == TurntableEvent(decrement_address(tt))

\* the + button
IncrementAddress == TurntableEvent(increment_address(tt))

\* the I2C address entry loses the focus
ValidateI2CAddress == TurntableEvent(validate_i2c_address(tt))

(***************************************************************************)
(* The version hook over the whole tag listing                             *)
(***************************************************************************)
\* the version selection passes a tag of the listing to the view that takes
\* version info
SelectVersion ==
    /\ calls < MaxCalls
    /\ \E version \in Tags :
          LET s == switch_view(frames, view, nextUid, destroyed,
                               "ex_commandstation", None, version)
          IN  /\ frames' = s.frames
              /\ view' = s.view
              /\ nextUid' = s.nextUid
              /\ destroyed' = s.destroyed
              /\ outcome' = s.outcome
              /\ request' = Request(frames, view, "ex_commandstation", None, version)
              /\ calls' = calls + 1
    /\ UNCHANGED ttvars

(***************************************************************************)
(* The bounded entries: speed, acceleration, gearing factor, phase angle   *)
(***************************************************************************)
\* EXTurntable.set_phase_switching, after the switch took its new value
set_phase_switching(obj) ==
    [obj EXCEPT !.phase_angle_entry_state =
        IF obj.auto_switch = "AUTO" THEN "normal" ELSE "disabled"]

\* texts the user types into the acceleration entry
AccelTexts == { <<"0">>, <<"1", "0", "0", "0">>, <<"1", "0", "0", "1">>, <<"x">> }

\* texts the user types into the gearing factor entry
GearingTexts == { <<"1", "0">>, <<"1", "1">>, <<"g">> }

\* texts the user types into the phase angle entry
PhaseAngleTexts == { <<"1", "8", "0">>, <<"1", "8", "1">>, <<"-", "1">>, <<"p", "h">> }

TypeAccel == \E text \in AccelTexts : TurntableEvent([tt EXCEPT !.accel = text])

\* a disabled entry takes no input
TypeGearing ==
    /\ tt.gearing_entry_state = "normal"
    /\ \E text \in GearingTexts : TurntableEvent([tt EXCEPT !.gearing = text])

TypePhaseAngle ==
    /\ tt.phase_angle_entry_state = "normal"
    /\ \E text \in PhaseAngleTexts : TurntableEvent([tt EXCEPT !.phase_angle = text])

TogglePhaseSwitching ==
    TurntableEvent(set_phase_switching([tt EXCEPT !.auto_switch = Flip(@, "AUTO", "MANUAL")]))

\* the versions on either side of the 0.6.0 threshold
BoundsTags ==
    { <<"v", "0", ".", "5", ".", "2", "-", "Prod">>,
      <<"v", "0", ".", "6", ".", "1", "-", "Prod">> }

BoundsVersion ==
    \E version \in BoundsTags :
        LET vd == extract_version_details(version)
        IN  TurntableEvent(set_product_version(get_steppers(tt, StandardSteppers), version,
                                               vd.major, vd.minor, vd.patch))

\* the address entry gets a text that int() rejects
TypeHexAddress == TurntableEvent([tt EXCEPT !.i2c_address = <<"6", "A">>])

(***************************************************************************)
(* The advanced overrides: a switch and an entry for each                  *)
(***************************************************************************)
\* the entries of the advanced tab; the switch of entry e is e_switch
OverrideEntries ==
    {"led_fast", "led_slow", "sanity_steps", "home_sensitivity", "full_step_count",
     "debounce_delay"}

\* the attribute name of the switch of an entry
OverrideSwitch(entry) ==
    CASE entry = "led_fast" -> "led_fast_switch"
      [] entry = "led_slow" -> "led_slow_switch"
      [] entry = "sanity_steps" -> "sanity_steps_switch"
      [] entry = "home_sensitivity" -> "home_sensitivity_switch"
      [] entry = "full_step_count" -> "full_step_count_switch"
      [] entry = "debounce_delay" -> "debounce_delay_switch"

\* texts the user types into an entry of the advanced tab
OverrideTexts == { <<"2", "5", "0">>, <<"s", "l", "o", "w">> }

\* the user clicks an override switch; the switches have no command
ToggleOverride ==
    \E entry \in OverrideEntries :
        TurntableEvent([tt EXCEPT ![OverrideSwitch(entry)] = Flip(@, "on", "off")])

TypeOverride ==
    \E entry \in OverrideEntries : \E text \in OverrideTexts :
        TurntableEvent([tt EXCEPT ![entry] = text])

(***************************************************************************)
(* The Select Product view: SelectProduct                                  *)
(***************************************************************************)
\* product_details: the entries check_product_device reads
product_details ==
    [product \in {"ex_commandstation"} |->
        [product_name |-> "EX-CommandStation",
         supported_devices |->
            {"arduino:avr:uno", "arduino:avr:nano", "arduino:avr:nano:cpu=atmega328",
             "arduino:avr:mega", "esp32:esp32:esp32",
             "STMicroelectronics:stm32:Nucleo_64:pnum=NUCLEO_F411RE",
             "STMicroelectronics:stm32:Nucleo_64:pnum=NUCLEO_F446RE"}]]

\* the first matching board of the device selected in the Select Device
\* view: devices the product supports and devices it does not
DetectedDevices ==
    { [fqbn |-> "arduino:avr:mega", name |-> "Arduino Mega or Mega 2560"],
      [fqbn |-> "esp32:esp32:esp32", name |-> "ESP32 Dev Module"],
      [fqbn |-> "arduino:avr:leonardo", name |-> "Arduino Leonardo"],
      [fqbn |-> "arduino:samd:nano_33_iot", name |-> "Arduino NANO 33 IoT"] }

\* the products whose button has a command
ProductButtons == {"ex_commandstation"}

\* the message for a device the product does not support
NotSupported(device, product) ==
    <<"Device type", device.name, "is not supported for use with",
      product_details[product].product_name>>

\* mutant: the transition is requested whatever the device is
check_product_device_NoCheck(fr, vw, nu, ds, oc, device, product) ==
    switch_view(fr, vw, nu, ds, "select_version_config", product, NoVersion)

\* SelectProduct.check_product_device on the cached select_product view
check_product_device(fr, vw, nu, ds, oc, device, product) ==
    IF device.fqbn \notin product_details[product].supported_devices
    THEN NavState([fr EXCEPT !["select_product"] =
                       process_error(@, NotSupported(device, product))],
                  vw, nu, ds, oc)
    ELSE switch_view(fr, vw, nu, ds, "select_version_config", product, NoVersion)

\* the user clicks a product logo of the Select Product view
CheckProductDevice ==
    /\ ViewInstance(frames, view).cls = "select_product"
    /\ \E device \in DetectedDevices :
       \E product \in ProductButtons :
          LET s == check_product_device(frames, view, nextUid, destroyed, outcome,
                                        device, product)
              called == device.fqbn \in product_details[product].supported_devices
          IN  /\ called => calls < MaxCalls
              /\ frames' = s.frames
              /\ view' = s.view
              /\ nextUid' = s.nextUid
              /\ destroyed' = s.destroyed
              /\ outcome' = s.outcome
              /\ request' = IF called
                            THEN Request(frames, view, "select_version_config", product,
                                         NoVersion)
                            ELSE request
              /\ calls' = IF called THEN calls + 1 ELSE calls
    /\ UNCHANGED ttvars

\* the buttons that lead to and from the Select Product view: Next of
\* Select Device and Back of the version selection, Back of Select Product
ProductNavigation ==
    /\ calls < MaxCalls
    /\ \E view_class \in {"select_product", "select_device"} :
          LET s == switch_view(frames, view, nextUid, destroyed, view_class, None, NoVersion)
          IN  /\ view_class = "select_device" => ViewInstance(frames, view).cls = "select_product"
              /\ frames' = s.frames
              /\ view' = s.view
              /\ nextUid' = s.nextUid
              /\ destroyed' = s.destroyed
              /\ outcome' = s.outcome
              /\ request' = Request(frames, view, view_class, None, NoVersion)
              /\ calls' = calls + 1
    /\ UNCHANGED ttvars

(***************************************************************************)
(* Specifications                                                          *)
(***************************************************************************)
vars == <<frames, view, nextUid, destroyed, request, outcome, calls,
          tt, config_file, last, passes, steps, log>>

Init == NavInit /\ TurntableInit

\* navigation between the registered views
NextNav == (SwitchView /\ UNCHANGED ttvars) \/ (EditView /\ UNCHANGED ttvars)

\* the EX-Turntable view: its events and generate_config
NextConfig ==
    \/ SetProductVersion
    \/ TypeI2CAddress
    \/ TypeSpeed
    \/ SelectStepper
    \/ ToggleMode
    \/ ToggleForwardOnly
    \/ ToggleReverseOnly
    \/ ToggleAdvancedConfig
    \/ (GenerateConfig /\ UNCHANGED log)

\* the gated switches of the EX-Turntable view
NextGate ==
    \/ GateVersion
    \/ GateMode
    \/ GateForwardOnly
    \/ GateReverseOnly
    \/ GateStepper
    \/ GateI2CAddress
    \/ GatePass

\* NavSpec, ConfigSpec and GateSpec are the parts of Spec; generate_config
\* is the only step of the view that changes the state of the root window,
\* through a switch_view call whose arguments NextNav covers as well
NextAddress ==
    \/ SelectStepper
    \/ TypeI2CAddress
    \/ DecrementAddress
    \/ IncrementAddress
    \/ ValidateI2CAddress
    \/ ToggleAdvancedConfig
NextVersion == SelectVersion \/ (EditView /\ UNCHANGED ttvars)
NextBounds ==
    \/ TypeSpeed
    \/ TypeAccel
    \/ TypeGearing
    \/ TypePhaseAngle
    \/ TogglePhaseSwitching
    \/ BoundsVersion
    \/ TypeHexAddress
    \/ GatePass
NextOverride ==
    \/ ToggleOverride
    \/ TypeOverride
    \/ TypeHexAddress
    \/ GatePass
NextProduct == CheckProductDevice \/ ProductNavigation \/ (EditView /\ UNCHANGED ttvars)
Next ==
    \/ NextNav \/ NextConfig \/ NextGate \/ NextVersion \/ NextAddress \/ NextProduct
    \/ NextBounds \/ NextOverride

Spec == Init /\ [][Next]_vars
NavSpec == Init /\ [][NextNav]_vars
ConfigSpec == Init /\ [][NextConfig]_vars
GateSpec == Init /\ [][NextGate]_vars
VersionSpec == Init /\ [][NextVersion]_vars
AddressSpec == Init /\ [][NextAddress]_vars
ProductSpec == Init /\ [][NextProduct]_vars
BoundsSpec == Init /\ [][NextBounds]_vars
OverrideSpec == Init /\ [][NextOverride]_vars

(***************************************************************************)
(* Properties of the navigation (NavSpec)                                  *)
(***************************************************************************)
\* the latest call named a view that was already cached
RequestedCached == Truthy(request.view_class) /\ request.cached_uid # 0

\* the latest call left another instance under the requested id
Reconstructed == frames[request.view_class].uid # request.cached_uid

\* C1 (as amended): a cached view is destroyed and reconstructed exactly
\* when it is compile_upload, or select_version_config requested with a
\* product other than the calling product; otherwise the cached instance
\* is reused
C1_RecreateExactlyWhenCodeSays ==
    RequestedCached =>
        /\ Reconstructed <=>
              \/ request.view_class = "compile_upload"
              \/ /\ request.view_class = "select_version_config"
                 /\ request.product # request.calling_product
        /\ Reconstructed => request.cached_uid \in destroyed
        /\ ~Reconstructed => request.cached_uid \notin destroyed

\* C1 witness: compile_upload, cached, requested with the calling product
C1_Witness ==
    /\ RequestedCached
    /\ request.view_class = "compile_upload"
    /\ request.product = request.calling_product
    /\ Reconstructed

\* C1 as stated: a cached view is reconstructed only if it is flagged for
\* recreation and the product differs from the calling product
C1_Original ==
    RequestedCached =>
        (Reconstructed =>
            /\ request.view_class \in ProductScoped
            /\ request.product # request.calling_product)

\* a switch_view call made by the user with the arguments of the call before
SecondCall ==
    /\ calls' = calls + 1
    /\ request'.view_class = request.view_class
    /\ request'.product = request.product
    /\ request'.version = request.version

\* the second of two equal calls changes nothing
SecondCallChangesNothing ==
    /\ frames' = frames
    /\ view' = view
    /\ view = frames[request.view_class].uid
    /\ destroyed' = destroyed
    /\ outcome' = "ok"

\* C2 (as amended): for every registered view other than compile_upload,
\* the second of two equal switch_view calls in a row leaves the cache, the
\* current view and the product/version context as the first left them
C2_IdempotentExceptCompileUpload ==
    [][(SecondCall /\ request.view_class \in Views \ {"compile_upload"})
           => SecondCallChangesNothing]_vars

\* C2 witness: select_version_config, current with a product, requested
\* again with that product
C2_Witness ==
    /\ request.view_class = "select_version_config"
    /\ request.calling_view = "select_version_config"
    /\ request.cached_uid # 0
    /\ request.product = request.calling_product
    /\ view = request.cached_uid

\* C2 as stated: for every registered view
C2_Original ==
    [][(SecondCall /\ request.view_class \in Views) => SecondCallChangesNothing]_vars

\* C3: after a switch_view call that returns normally for a view id, the
\* current view is the instance cached under that id and every other
\* cached instance is as it was before the call
C3_OneActiveOthersKept ==
    [][(calls' = calls + 1 /\ outcome' = "ok" /\ Truthy(request'.view_class))
           => /\ request'.view_class \in Views
              /\ view' # 0
              /\ view' = frames'[request'.view_class].uid
              /\ \A id \in Views \ {request'.view_class} : frames'[id] = frames[id]]_vars

\* C3 witness: a view became current while an edited instance stayed cached
C3_Witness ==
    /\ calls > 0
    /\ outcome = "ok"
    /\ Truthy(request.view_class)
    /\ view = frames[request.view_class].uid
    /\ \E id \in Views \ {request.view_class} : frames[id].uid # 0 /\ frames[id].edited

\* C4 (as amended): a non-empty id that is no key of self.views ends in
\* KeyError, an empty or None id returns normally, and either way the
\* current view and the cache are unchanged
C4_UnknownIdLeavesStateAlone ==
    [][(calls' = calls + 1 /\ request'.view_class \notin Views)
           => /\ outcome' = IF request'.view_class \in {None, ""} THEN "ok" ELSE "KeyError"
              /\ frames' = frames
              /\ view' = view
              /\ nextUid' = nextUid
              /\ destroyed' = destroyed]_vars

\* C4 witness: an unregistered id was requested and KeyError raised
C4_Witness ==
    /\ calls > 0
    /\ request.view_class = "advanced_config"
    /\ outcome = "KeyError"

\* C4 as stated: every id outside the registry, None and "" included,
\* ends in an error
C4_Original ==
    (calls > 0 /\ request.view_class \notin Views) => outcome # "ok"

\* C6 as stated: a view with a version setter, requested without a version
\* when it has to be constructed, is constructed, activated and left with
\* its version name and numbers at None
C6_Original ==
    (/\ calls > 0
     /\ HasVersionSetter(request.view_class)
     /\ request.version = NoVersion
     /\ (request.cached_uid = 0 \/ Reconstructed))
        => /\ outcome = "ok"
           /\ view = frames[request.view_class].uid
           /\ frames[request.view_class].product_version_name = NoVersion
           /\ frames[request.view_class].product_major_version = NoneInt
           /\ frames[request.view_class].product_minor_version = NoneInt
           /\ frames[request.view_class].product_patch_version = NoneInt

\* C7 as stated: with any version string the call completes with the
\* requested view current, and a tag that does not parse leaves the view
\* with the unknown-version sentinel: no numeric field present
C7_Original ==
    (calls > 0 /\ request.version # NoVersion /\ request.view_class \in Views)
        => /\ outcome = "ok"
           /\ view = frames[request.view_class].uid
           /\ HasVersionSetter(request.view_class) =>
                 /\ frames[request.view_class].product_version_name = request.version
                 /\ extract_version_details(request.version) = UnknownVersion =>
                       /\ frames[request.view_class].product_major_version = NoneInt
                       /\ frames[request.view_class].product_minor_version = NoneInt
                       /\ frames[request.view_class].product_patch_version = NoneInt

C5_Original ==
    last.result = "written"
        => /\ last.requested \in Views
           /\ request.view_class = last.requested
           /\ outcome = "ok"
           /\ view = frames[last.requested].uid

\* C8 as stated: the numeric version fields are those parsed from the
\* stored version name, or all absent when it does not parse
C8_Original ==
    tt.product_version_name # NoVersion
        => /\ tt.product_major_version = extract_version_details(tt.product_version_name).major
           /\ tt.product_minor_version = extract_version_details(tt.product_version_name).minor
           /\ tt.product_patch_version = extract_version_details(tt.product_version_name).patch

\* C10 as stated: a pass attempts the write exactly when it recorded no
\* validation error, and requests no view when it recorded one
C10_Original ==
    last.result # "none"
        => /\ last.write_attempted <=> (Len(last.param_errors) = 0)
           /\ Len(last.param_errors) > 0 => last.requested = None

\* 1 for a condition that holds, 0 otherwise
Count(b) == IF b THEN 1 ELSE 0

\* text is no integer, or an integer outside lo..hi
OutOfBounds(text, lo, hi) == ~IsInt(text) \/ IntOf(text) < lo \/ IntOf(text) > hi

\* the number of parameters of the view that are invalid on their own: the
\* I2C address, the phase angle when switching is automatic, the stepper
\* driver, speed, acceleration, the gearing factor when it is editable, and
\* every advanced override that is switched on
InvalidCount(obj) ==
    Count(OutOfBounds(obj.i2c_address, 8, 77))
    + Count(obj.auto_switch = "AUTO" /\ OutOfBounds(obj.phase_angle, 0, 180))
    + Count(obj.stepper_combo = SelectStepperDriver)
    + Count(OutOfBounds(obj.speed, 10, 20000))
    + Count(OutOfBounds(obj.accel, 1, 1000))
    + Count(obj.gearing_entry_state = "normal" /\ OutOfBounds(obj.gearing, 1, 10))
    + Count(obj.led_fast_switch = "on" /\ ~IsInt(obj.led_fast))
    + Count(obj.led_slow_switch = "on" /\ ~IsInt(obj.led_slow))
    + Count(obj.sanity_steps_switch = "on" /\ ~IsInt(obj.sanity_steps))
    + Count(obj.home_sensitivity_switch = "on" /\ ~IsInt(obj.home_sensitivity))
    + Count(obj.full_step_count_switch = "on" /\ ~IsInt(obj.full_step_count))
    + Count(obj.debounce_delay_switch = "on" /\ ~IsInt(obj.debounce_delay))

\* a rule over two parameters is broken: traverser mode with forward or
\* reverse only rotation
CrossFieldViolated(obj) ==
    /\ obj.mode_switch = "TRAVERSER"
    /\ (obj.forward_only_switch = "on" \/ obj.reverse_only_switch = "on")

\* C11 as stated: a pass over N parameters that are invalid on their own
\* records exactly N errors, and writes nothing when N > 0
C11_Original ==
    [][(passes' = passes + 1 /\ ~CrossFieldViolated(tt))
           => /\ Len(last'.param_errors) = InvalidCount(tt)
              /\ InvalidCount(tt) > 0 =>
                    (~last'.write_attempted /\ config_file' = config_file)]_vars

\* the number of entries whose text int() rejects, among those the pass reads
UncoercibleCount(obj) ==
    Count(~IsInt(obj.i2c_address))
    + Count(obj.auto_switch = "AUTO" /\ ~IsInt(obj.phase_angle))
    + Count(~IsInt(obj.speed))
    + Count(~IsInt(obj.accel))
    + Count(obj.gearing_entry_state = "normal" /\ ~IsInt(obj.gearing))

\* C12 as stated: no pass ends in an exception, and every value that cannot
\* be coerced to an integer has its entry in the error list
C12_Original ==
    [][passes' = passes + 1
           => /\ last'.result # "ValueError"
              /\ Len(last'.param_errors) >= UncoercibleCount(tt)]_vars

\* the elements of a sequence
Elems(seq) == {seq[i] : i \in 1..Len(seq)}

\* the directive names of a list of lines, active or commented-out
LineNames(lines) == {lines[i].name : i \in 1..Len(lines)}

\* the names of the active directives of a list of lines
ActiveNames(lines) == {lines[i].name : i \in {j \in 1..Len(lines) : lines[j].active}}

\* the stored version is 0.x with x below minor
StoredBelow(obj, minor) ==
    /\ obj.product_major_version = 0
    /\ obj.product_minor_version # NoneInt
    /\ obj.product_minor_version < minor

GearingErrors ==
    {"You must provide a numeric gearing factor", "Gearing factor must be between 1 and 10"}

ForwardOnlyError == "Traverser mode is incompatible with forward only rotation"
ReverseOnlyError == "Traverser mode is incompatible with reverse only rotation"

\* the directives of the parameters whose control is disabled, with the
\* version thresholds that disable the gearing factor and the invert switches
GatedNames(obj) ==
    (IF StoredBelow(obj, 6) \/ obj.gearing_entry_state = "disabled"
     THEN {"STEPPER_GEARING_FACTOR"} ELSE {})
    \cup (IF StoredBelow(obj, 7) \/ obj.invert_dir_switch_state = "disabled"
          THEN {"INVERT_DIRECTION"} ELSE {})
    \cup (IF StoredBelow(obj, 7) \/ obj.invert_step_switch_state = "disabled"
          THEN {"INVERT_STEP"} ELSE {})
    \cup (IF StoredBelow(obj, 7) \/ obj.invert_enable_switch_state = "disabled"
          THEN {"INVERT_ENABLE"} ELSE {})
    \cup (IF obj.forward_only_switch_state = "disabled" THEN {"ROTATE_FORWARD_ONLY"} ELSE {})
    \cup (IF obj.reverse_only_switch_state = "disabled" THEN {"ROTATE_REVERSE_ONLY"} ELSE {})

\* the error messages of the parameters whose control is disabled
GatedErrors(obj) ==
    (IF "STEPPER_GEARING_FACTOR" \in GatedNames(obj) THEN GearingErrors ELSE {})
    \cup (IF "ROTATE_FORWARD_ONLY" \in GatedNames(obj) THEN {ForwardOnlyError} ELSE {})
    \cup (IF "ROTATE_REVERSE_ONLY" \in GatedNames(obj) THEN {ReverseOnlyError} ELSE {})

VersionGatedNames(obj) ==
    (IF StoredBelow(obj, 6) THEN {"STEPPER_GEARING_FACTOR"} ELSE {})
    \cup (IF StoredBelow(obj, 7)
          THEN {"INVERT_DIRECTION", "INVERT_STEP", "INVERT_ENABLE",
                "ROTATE_FORWARD_ONLY", "ROTATE_REVERSE_ONLY"}
          ELSE {})

VersionAtLeast(v, major, minor, patch) ==
    \/ v.major > major
    \/ v.major = major /\ v.minor > minor
    \/ v.major = major /\ v.minor = minor /\ v.patch >= patch

\* the states of the invert and rotate switches
SwitchStates(obj) ==
    {obj.invert_dir_switch_state, obj.invert_step_switch_state,
     obj.invert_enable_switch_state, obj.forward_only_switch_state,
     obj.reverse_only_switch_state}

\* this step is set_product_version called with version
IsSetProductVersion(version) ==
    /\ steps' = steps + 1
    /\ tt' = set_product_version(get_steppers(tt, StandardSteppers), version,
                                 extract_version_details(version).major,
                                 extract_version_details(version).minor,
                                 extract_version_details(version).patch)

Occurrences(seq, x) == Cardinality({i \in 1..Len(seq) : seq[i] = x})

\* C17: for an I2C address text that is an integer, a pass records exactly
\* one I2C range error, writes nothing and leaves config.h alone when the
\* value is outside 8..77; otherwise it records no I2C error, attempts the
\* write when every other parameter is valid, and a file it writes holds
\* the line "#define I2C_ADDRESS 0x<text>"
C17_I2CAddressRange ==
    [][(passes' = passes + 1 /\ IsInt(tt.i2c_address))
           => IF IntOf(tt.i2c_address) < 8 \/ IntOf(tt.i2c_address) > 77
              THEN /\ Occurrences(last'.param_errors, I2CRangeError) = 1
                   /\ ~last'.write_attempted
                   /\ config_file' = config_file
              ELSE /\ Occurrences(last'.param_errors, I2CRangeError) = 0
                   /\ (InvalidCount(tt) = 0 /\ ~CrossFieldViolated(tt))
                         => last'.write_attempted
                   /\ last'.result = "written" =>
                         /\ Define("I2C_ADDRESS", <<"0x">> \o tt.i2c_address)
                               \in Elems(config_file')
                         /\ Occurrences([i \in 1..Len(config_file') |->
                                            config_file'[i].name], "I2C_ADDRESS") = 1]_vars

\* C17 witness: the address 5 gave the I2C range error and nothing else
C17_Witness ==
    /\ last.result = "errors"
    /\ tt.i2c_address = <<"5">>
    /\ last.param_errors = <<I2CRangeError>>
    /\ tt.error = last.param_errors
    /\ config_file = <<>>

\* every message generate_config appends to param_errors
ValidationMessages ==
    {I2CRangeError, "Phase switch angle must be between 0 and 180",
     "You must select a stepper driver",
     "You must provide a numeric speed value", "Speed must be between 10 and 20000",
     "You must provide a numeric acceleration value",
     "Acceleration must be between 1 and 1000",
     ForwardOnlyError, ReverseOnlyError,
     "Fast LED delay must be numeric", "Slow LED delay must be numeric",
     "Sanity step count must be numeric", "Home sensitivity step count must be numeric",
     "Full step count must be numeric", "Debounce delay must be numeric"}
    \cup GearingErrors

\* the pass left the root window and the parameters of the view as they were
PassChangedNothing ==
    /\ frames' = frames
    /\ view' = view
    /\ nextUid' = nextUid
    /\ destroyed' = destroyed
    /\ request' = request
    /\ outcome' = outcome
    /\ [tt' EXCEPT !.error = tt.error] = tt
    /\ last'.requested = None

\* C18: a pass whose validation passes and whose write fails shows the
\* write error, which is no validation message, requests no view and
\* leaves the current view, the cache and every parameter as they were
C18_WriteFailureKeepsState ==
    [][(passes' = passes + 1 /\ last'.result = "write_failed")
           => /\ InvalidCount(tt) = 0
              /\ last'.param_errors = <<>>
              /\ tt'.error = <<WriteError>>
              /\ Elems(tt'.error) \cap ValidationMessages = {}
              /\ PassChangedNothing]_vars

\* C18 witness: the write failed on the view with its stepper selected
C18_Witness ==
    /\ last.result = "write_failed"
    /\ last.write_attempted
    /\ tt.error = <<WriteError>>
    /\ tt.stepper_combo = "A4988"
    /\ view = frames["welcome"].uid

(***************************************************************************)
(* Properties of the gated switches (GateSpec)                             *)
(***************************************************************************)
\* the directives of the invert and rotate switches
SwitchDirectives ==
    {"INVERT_DIRECTION", "INVERT_STEP", "INVERT_ENABLE",
     "ROTATE_FORWARD_ONLY", "ROTATE_REVERSE_ONLY"}

\* the pass of a log entry ran on a version 0.x with x below minor
LoggedBelow(entry, minor) ==
    entry.version[2] = 0 /\ entry.version[3] # NoneInt /\ entry.version[3] < minor

\* the pass of a log entry built its whole directive list without an error
ValidPass(entry) == entry.result \in {"written", "write_failed"}

\* C14 as stated: once a version below 0.7.0 is set, whatever the user
\* edits afterwards, the five switches stay disabled and the output of no
\* pass holds an active INVERT_* or ROTATE_* directive
C14_Original ==
    /\ StoredBelow(tt, 7) => SwitchStates(tt) = {"disabled"}
    /\ \A i \in 1..Len(log) :
          (ValidPass(log[i]) /\ LoggedBelow(log[i], 7))
             => ActiveNames(log[i].config_list) \cap SwitchDirectives = {}

\* C16 as stated: a pass in traverser mode with forward (reverse) only
\* rotation on records the incompatibility error of that switch, builds no
\* active directive for it and writes nothing
C16_Original ==
    [][passes' = passes + 1
           => /\ (tt.mode_switch = "TRAVERSER" /\ tt.forward_only_switch = "on")
                    => /\ ForwardOnlyError \in Elems(last'.param_errors)
                       /\ ~last'.write_attempted
                       /\ config_file' = config_file
              /\ (tt.mode_switch = "TRAVERSER" /\ tt.reverse_only_switch = "on")
                    => /\ ReverseOnlyError \in Elems(last'.param_errors)
                       /\ ~last'.write_attempted
                       /\ config_file' = config_file]_vars

\* C19: a pass that records an error attempts no write, shows the errors,
\* and leaves the current view, the cache, config.h and every parameter of
\* the view as they were
C19_FailedPassKeepsState ==
    [][(passes' = passes + 1 /\ Len(last'.param_errors) > 0)
           => /\ last'.result = "errors"
              /\ ~last'.write_attempted
              /\ tt'.error = last'.param_errors
              /\ config_file' = config_file
              /\ PassChangedNothing]_vars

\* C19 witness: a pass with errors, then, with the stepper driver chosen,
\* a pass that wrote config.h
C19_Witness ==
    /\ Len(log) = 2
    /\ log[1].result = "errors"
    /\ log[2].result = "written"
    /\ log[1].values # log[2].values
    /\ last.result = "written"
    /\ config_file # <<>>

\* C20 as stated: two passes over the same parameter values and the same
\* version build the same directive list, whatever was edited or passed
\* in between
C20_Original ==
    \A i, j \in 1..Len(log) :
        (/\ ValidPass(log[i]) /\ ValidPass(log[j])
         /\ log[i].values = log[j].values
         /\ log[i].version = log[j].version)
            => log[i].config_list = log[j].config_list

(***************************************************************************)
(* Properties of the version hook (VersionSpec)                            *)
(***************************************************************************)
\* s[i..j] is a non-empty run of digits
DigitRun(s, i, j) == i <= j /\ \A k \in i..j : s[k] \in Digits

\* the tag starts with v<digits>.<digits>.<digits>
HasTriplet(tag) ==
    /\ Len(tag) >= 6
    /\ tag[1] = "v"
    /\ \E i, j \in 1..Len(tag) :
          /\ i < j
          /\ tag[i] = "." /\ tag[j] = "."
          /\ DigitRun(tag, 2, i - 1)
          /\ DigitRun(tag, i + 1, j - 1)
          /\ j < Len(tag) /\ tag[j + 1] \in Digits

\* the numeric fields of a descriptor that are present
Present(v) == {f \in {"major", "minor", "patch"} : v[f] # NoneInt}

\* C21: every call with a version ends with version_details bound to a
\* descriptor whose numeric fields are all present or all absent and whose
\* channel is Prod, Devel or Unknown; a tag without the leading v or
\* without a numeric dotted triplet gives channel Unknown and no numeric
\* field, and the call itself returns normally
C21_ParserTotal ==
    (calls > 0 /\ request.version # NoVersion)
        => /\ outcome = "ok"
           /\ request.version_details.channel \in {"Prod", "Devel", "Unknown"}
           /\ Present(request.version_details) \in {{}, {"major", "minor", "patch"}}
           /\ HasTriplet(request.version) <=> Present(request.version_details) # {}
           /\ ~HasTriplet(request.version) => request.version_details.channel = "Unknown"

\* C21 witness: a tag with a non-numeric minor was passed and gave the
\* unknown-version descriptor to a newly constructed view
C21_Witness ==
    /\ calls = 1
    /\ request.version = <<"v", "0", ".", "x", ".", "1", "-", "Prod">>
    /\ request.version_details = UnknownVersion
    /\ request.cached_uid = 0
    /\ frames["ex_commandstation"].product_version_name = request.version
    /\ frames["ex_commandstation"].product_major_version = NoneInt
    /\ outcome = "ok"

(***************************************************************************)
(* Properties of construction and recreation (NavSpec)                     *)
(***************************************************************************)
\* C22 as stated: a request for a registered view that is not in the cache
\* ends with a new instance cached under the requested id and current,
\* shown, holding the requested product when the view is product-scoped
\* and the requested version when the view has a version setter
C22_Original ==
    (calls > 0 /\ request.view_class \in Views /\ request.cached_uid = 0)
        => /\ outcome = "ok"
           /\ frames[request.view_class].uid = nextUid - 1
           /\ view = frames[request.view_class].uid
           /\ frames[request.view_class].gridded
           /\ request.view_class \in ProductScoped =>
                 frames[request.view_class].product = request.product
           /\ HasVersionSetter(request.view_class) =>
                 frames[request.view_class].product_version_name = request.version

\* the last call found select_version_config cached and was asked for a
\* product other than the one of the view it switched from
ProductChanged ==
    /\ calls > 0
    /\ request.view_class = "select_version_config"
    /\ request.cached_uid # 0
    /\ request.product # request.calling_product

\* C23: select_version_config, cached and requested with a product that
\* differs from the calling view's product, is destroyed and replaced in
\* the cache by a new instance that holds the requested product (and the
\* version, had it a version setter), is shown and is the current view
C23_RecreatedOnProductChange ==
    ProductChanged
        => /\ outcome = "ok"
           /\ request.cached_uid \in destroyed
           /\ frames["select_version_config"].uid = nextUid - 1
           /\ frames["select_version_config"].uid \notin destroyed
           /\ frames["select_version_config"].product = request.product
           /\ frames["select_version_config"].gridded
           /\ HasVersionSetter("select_version_config") =>
                 frames["select_version_config"].product_version_name = request.version
           /\ view = frames["select_version_config"].uid
           /\ \A id \in Views : frames[id].uid # request.cached_uid

\* C23 witness: select_version_config, current with one product, was
\* requested with the other product: the cached instance is gone and a
\* new one without edits holds the requested product
C23_Witness ==
    /\ ProductChanged
    /\ request.calling_view = "select_version_config"
    /\ request.calling_product = "ex_commandstation"
    /\ request.product = "ex_turntable"
    /\ frames["select_version_config"].product = "ex_turntable"
    /\ ~frames["select_version_config"].edited
    /\ request.cached_uid \in destroyed
    /\ view = frames["select_version_config"].uid

(***************************************************************************)
(* Properties of the written text (ConfigSpec)                             *)
(***************************************************************************)
\* the directive names in the order generate_config deals with them
SchemaOrder ==
    <<"I2C_ADDRESS", "TURNTABLE_EX_MODE", "SENSOR_TESTING", "HOME_SENSOR_ACTIVE_STATE",
      "LIMIT_SENSOR_ACTIVE_STATE", "RELAY_ACTIVE_STATE", "PHASE_SWITCHING",
      "PHASE_SWITCH_ANGLE", "STEPPER_DRIVER", "DISABLE_OUTPUTS_IDLE", "STEPPER_MAX_SPEED",
      "STEPPER_ACCELERATION", "STEPPER_GEARING_FACTOR", "INVERT_DIRECTION", "INVERT_STEP",
      "INVERT_ENABLE", "ROTATE_FORWARD_ONLY", "ROTATE_REVERSE_ONLY", "LED_FAST", "LED_SLOW",
      "DEBUG", "SANITY_STEPS", "HOME_SENSITIVITY", "FULL_STEP_COUNT", "DEBOUNCE_DELAY">>

\* the place of a directive name in the schema, 0 for any other text
SchemaIndex(name) ==
    IF \E i \in 1..Len(SchemaOrder) : SchemaOrder[i] = name
    THEN CHOOSE i \in 1..Len(SchemaOrder) : SchemaOrder[i] = name
    ELSE 0

\* the header comment of a file written for a view
IsHeader(line, obj) ==
    /\ ~line.active
    /\ line.name = "config.h - Generated by EX-Installer"
    /\ line.value = <<"app_version", "EX-Turntable">> \o obj.product_version_name

\* C24: the text of a pass that writes config.h starts with the header
\* comment naming the installer version, the product and the version name
\* of the view, and every later line is a directive of the schema, active
\* or commented-out, in schema order and so at most once
C24_HeaderThenSchemaOrder ==
    [][(passes' = passes + 1 /\ last'.result = "written")
           => /\ Len(config_file') >= 2
              /\ IsHeader(config_file'[1], tt)
              /\ \A i \in 2..Len(config_file') :
                    /\ SchemaIndex(config_file'[i].name) > 0
                    /\ i > 2 => SchemaIndex(config_file'[i - 1].name)
                                   < SchemaIndex(config_file'[i].name)]_vars

\* C24 witness: a file written for v0.7.0-Devel whose second line is the
\* I2C address and whose last line is the debounce delay, with the
\* stepper driver and the invert switches in between
C24_Witness ==
    /\ last.result = "written"
    /\ Len(config_file) >= 2
    /\ config_file[1].value
          = <<"app_version", "EX-Turntable">> \o <<"v", "0", ".", "7", ".", "0", "-", "Devel">>
    /\ config_file[2].name = "I2C_ADDRESS"
    /\ config_file[Len(config_file)].name = "DEBOUNCE_DELAY"
    /\ {"STEPPER_DRIVER", "INVERT_DIRECTION", "ROTATE_FORWARD_ONLY"} \subseteq LineNames(config_file)

(***************************************************************************)
(* Properties of the mode and the rotation switches (GateSpec)             *)
(***************************************************************************)
\* C25 as stated: whenever the mode is TRAVERSER, the forward-only and
\* reverse-only switches are both off and both disabled
C25_Original ==
    tt.mode_switch = "TRAVERSER"
        => /\ tt.forward_only_switch = "off"
           /\ tt.reverse_only_switch = "off"
           /\ tt.forward_only_switch_state = "disabled"
           /\ tt.reverse_only_switch_state = "disabled"

(***************************************************************************)
(* Properties of whole transitions (NavSpec)                               *)
(***************************************************************************)
\* C26 as stated: a call of switch_view that fails leaves the current view
\* and the cache as they were before the call, and after any call every
\* cached instance is one that was not destroyed and that was shown
C26_Original ==
    [][(calls' = calls + 1)
           => /\ outcome' # "ok" => (frames' = frames /\ view' = view)
              /\ \A id \in Views :
                    frames'[id].uid # 0
                        => /\ frames'[id].uid \notin destroyed'
                           /\ frames'[id].gridded]_vars

\* C27 as stated: select_version_config, cached with product P and left
\* for another view, is reused as it was left, edits included, when it is
\* requested again with the same product P
C27_Original ==
    [][(/\ calls' = calls + 1
        /\ request'.view_class = "select_version_config"
        /\ Cached(frames, "select_version_config")
        /\ view # frames["select_version_config"].uid
        /\ request'.product = frames["select_version_config"].product)
           => /\ frames'["select_version_config"] = frames["select_version_config"]
              /\ view' = frames["select_version_config"].uid
              /\ destroyed' = destroyed]_vars

(***************************************************************************)
(* Properties of the rotation switches (GateSpec)                          *)
(***************************************************************************)
\* both rotation directives are active in a list of lines
BothRotateOnly(lines) ==
    {"ROTATE_FORWARD_ONLY", "ROTATE_REVERSE_ONLY"} \subseteq ActiveNames(lines)

\* C28: the forward-only and reverse-only switches are never both on, and
\* no pass of generate_config, nor the file it writes, holds an active
\* ROTATE_FORWARD_ONLY together with an active ROTATE_REVERSE_ONLY
C28_RotateOnlyExclusive ==
    /\ ~(tt.forward_only_switch = "on" /\ tt.reverse_only_switch = "on")
    /\ ~BothRotateOnly(config_file)
    /\ \A i \in 1..Len(log) :
          /\ ~(log[i].values[17] = "on" /\ log[i].values[18] = "on")
          /\ ~BothRotateOnly(log[i].config_list)

\* C28 witness: a pass wrote an active ROTATE_REVERSE_ONLY while
\* reverse-only was on, and the user then turned forward-only on, which
\* turned reverse-only off
C28_Witness ==
    /\ Len(log) >= 1
    /\ log[1].result = "written"
    /\ log[1].values[18] = "on"
    /\ "ROTATE_REVERSE_ONLY" \in ActiveNames(config_file)
    /\ tt.forward_only_switch = "on"
    /\ tt.reverse_only_switch = "off"
    /\ tt.reverse_only_switch_state = "normal"

(***************************************************************************)
(* Properties of the Next button (AddressSpec)                             *)
(***************************************************************************)
\* C29 as stated: the Next button is enabled only while a stepper driver
\* other than the placeholder is selected
C29_Original ==
    tt.next_enabled => tt.stepper_combo # SelectStepperDriver

(***************************************************************************)
(* Properties of reuse (NavSpec)                                           *)
(***************************************************************************)
\* the version name and numbers an instance holds
VersionFields(obj) ==
    <<obj.product_version_name, obj.product_major_version,
      obj.product_minor_version, obj.product_patch_version>>

\* C30: a call without a version that reuses the cached instance of the
\* requested view leaves the version name and numbers of that instance, and
\* everything else of it but the product, as they were; the version fields
\* of a reused instance change only in a call that carries a version
C30_ReuseKeepsVersion ==
    [][(/\ calls' = calls + 1
        /\ request'.view_class \in Views
        /\ frames[request'.view_class].uid # 0
        /\ frames'[request'.view_class].uid = frames[request'.view_class].uid)
           => /\ request'.version = NoVersion
                    => /\ VersionFields(frames'[request'.view_class])
                             = VersionFields(frames[request'.view_class])
                       /\ [frames'[request'.view_class] EXCEPT !.product = None]
                             = [frames[request'.view_class] EXCEPT !.product = None]
                       /\ outcome' = "ok"
                       /\ view' = frames[request'.view_class].uid
              /\ VersionFields(frames'[request'.view_class])
                    # VersionFields(frames[request'.view_class])
                    => request'.version # NoVersion]_vars

\* C30 witness: ex_commandstation, cached with v0.6.1-Prod, was requested
\* again without a version and still holds 0.6.1
C30_Witness ==
    /\ calls >= 2
    /\ request.view_class = "ex_commandstation"
    /\ request.version = NoVersion
    /\ request.cached_uid # 0
    /\ request.cached_uid = frames["ex_commandstation"].uid
    /\ outcome = "ok"
    /\ view = request.cached_uid
    /\ VersionFields(frames["ex_commandstation"])
          = << <<"v", "0", ".", "6", ".", "1", "-", "Prod">>, 0, 6, 1 >>

(***************************************************************************)
(* Properties of the I2C address buttons (AddressSpec)                     *)
(***************************************************************************)
\* the nearest value of 8..77
Clamp(n) == IF n < 8 THEN 8 ELSE IF n > 77 THEN 77 ELSE n

\* the address entry holds the integer n and nothing else of the view but
\* the error frame and the Next button differs from obj
AddressIs(new, obj, n) ==
    /\ IsInt(new.i2c_address)
    /\ IntOf(new.i2c_address) = n
    /\ [new EXCEPT !.i2c_address = <<>>, !.error = <<>>, !.next_enabled = FALSE]
          = [obj EXCEPT !.i2c_address = <<>>, !.error = <<>>, !.next_enabled = FALSE]

\* C31: with an integer in the address entry, the + button, the - button
\* and the validation each leave an address within 8..77: + gives the next
\* value and never more than 77, - the previous value and never less than
\* 8, and a value that is out of range when it is validated becomes the
\* nearest of 8 and 77, with the error shown and Next disabled
C31_AddressStaysInRange ==
    [][(steps' = steps + 1 /\ IsInt(tt.i2c_address))
          => LET v == IntOf(tt.i2c_address)
                 up == IF v < 77 THEN v + 1 ELSE v
                 down == IF v > 8 THEN v - 1 ELSE v
                 Outcome(w) ==
                     /\ AddressIs(tt', tt, Clamp(w))
                     /\ IntOf(tt'.i2c_address) \in 8..77
                     /\ w \notin 8..77 => (~tt'.next_enabled /\ tt'.error = <<I2CRangeError>>)
             IN  /\ tt' = increment_address(tt) => (Outcome(up) /\ IntOf(tt'.i2c_address) <= 77)
                 /\ tt' = decrement_address(tt) => (Outcome(down) /\ IntOf(tt'.i2c_address) >= 8)
                 /\ tt' = validate_i2c_address(tt) => Outcome(v)]_vars

\* C31 witness: 78 was typed and the + button or the validation brought it
\* down to 77, with the error shown and Next disabled
C31_Witness ==
    /\ steps >= 2
    /\ tt.i2c_address = <<"7", "7">>
    /\ tt.error = <<I2CRangeError>>
    /\ ~tt.next_enabled

(***************************************************************************)
(* Properties of the Select Product view (ProductSpec)                     *)
(***************************************************************************)
\* this step is a click on the logo of product with device selected
IsCheckProductDevice(device, product) ==
    /\ ViewInstance(frames, view).cls = "select_product"
    /\ NavState(frames', view', nextUid', destroyed', outcome')
          = check_product_device(frames, view, nextUid, destroyed, outcome, device, product)
    /\ (calls' = calls \/ request'.view_class = "select_version_config")

\* the cache with the error frames cleared
WithoutErrors(fr) == [id \in Views |-> [fr[id] EXCEPT !.error = <<>>]]

\* C32: a click on a product logo calls switch_view for
\* select_version_config with that product exactly when the board of the
\* selected device is in the product's supported_devices, and the view
\* then current holds the product; for any other board the view shows the
\* error and the current view, the cache, the products the views hold and
\* the latest request are what they were
C32_TransitionIffDeviceSupported ==
    [][\A device \in DetectedDevices : \A product \in ProductButtons :
          IsCheckProductDevice(device, product) =>
             /\ calls' = calls + 1
                   <=> device.fqbn \in product_details[product].supported_devices
             /\ IF device.fqbn \in product_details[product].supported_devices
                THEN /\ request'.view_class = "select_version_config"
                     /\ request'.product = product
                     /\ request'.calling_view = "select_product"
                     /\ outcome' = "ok"
                     /\ view' = frames'["select_version_config"].uid
                     /\ frames'["select_version_config"].product = product
                     /\ frames'["select_product"] = frames["select_product"]
                ELSE /\ calls' = calls
                     /\ request' = request
                     /\ view' = view
                     /\ nextUid' = nextUid
                     /\ destroyed' = destroyed
                     /\ WithoutErrors(frames') = WithoutErrors(frames)
                     /\ frames'["select_product"].error = NotSupported(device, product)]_vars

\* C32 witness: a click with an Arduino Leonardo selected left the error
\* on the Select Product view, and a later click with a supported board
\* led to the version selection for EX-CommandStation
C32_Witness ==
    /\ frames["select_product"].error
          = NotSupported([fqbn |-> "arduino:avr:leonardo", name |-> "Arduino Leonardo"],
                         "ex_commandstation")
    /\ request.view_class = "select_version_config"
    /\ request.calling_view = "select_product"
    /\ request.product = "ex_commandstation"
    /\ view = frames["select_version_config"].uid
    /\ view # 0
    /\ frames["select_version_config"].product = "ex_commandstation"

(***************************************************************************)
(* Properties of the bounded entries (BoundsSpec)                          *)
(***************************************************************************)
\* how many entries of a list of errors are among the given messages
ErrorsAmong(errs, messages) == Cardinality({i \in 1..Len(errs) : errs[i] \in messages})

\* a bounded integer parameter as the pass must treat it: the directive
\* with the entered text iff the text is an integer within lo..hi, and
\* otherwise one error of the parameter and no line with its name
BoundedAsStated(text, lo, hi, name, messages, cfg, errs) ==
    IF IsInt(text) /\ IntOf(text) >= lo /\ IntOf(text) <= hi
    THEN /\ Define(name, text) \in Elems(cfg)
         /\ ErrorsAmong(errs, messages) = 0
    ELSE /\ name \notin LineNames(cfg)
         /\ ErrorsAmong(errs, messages) = 1

\* C33 as stated: every pass treats speed (10..20000), acceleration
\* (1..1000), the gearing factor while it is editable (1..10) and the phase
\* angle under AUTO (0..180) as bounded integers: directive iff integer
\* within the bounds, else exactly one error and no directive; under
\* MANUAL the phase angle gives neither an error nor a line
C33_Original ==
    [][passes' = passes + 1
          => LET cfg == log'[Len(log')].config_list
                 errs == last'.param_errors
             IN  /\ BoundedAsStated(tt.speed, 10, 20000, "STEPPER_MAX_SPEED",
                        {"You must provide a numeric speed value",
                         "Speed must be between 10 and 20000"}, cfg, errs)
                 /\ BoundedAsStated(tt.accel, 1, 1000, "STEPPER_ACCELERATION",
                        {"You must provide a numeric acceleration value",
                         "Acceleration must be between 1 and 1000"}, cfg, errs)
                 /\ tt.gearing_entry_state = "normal" =>
                        BoundedAsStated(tt.gearing, 1, 10, "STEPPER_GEARING_FACTOR",
                                        GearingErrors, cfg, errs)
                 /\ IF tt.auto_switch = "AUTO"
                    THEN BoundedAsStated(tt.phase_angle, 0, 180, "PHASE_SWITCH_ANGLE",
                            {"Phase switch angle must be between 0 and 180"}, cfg, errs)
                    ELSE /\ "PHASE_SWITCH_ANGLE" \notin LineNames(cfg)
                         /\ ErrorsAmong(errs, {"Phase switch angle must be between 0 and 180"}) = 0]_vars

(***************************************************************************)
(* Properties of the advanced overrides (OverrideSpec)                     *)
(***************************************************************************)
\* the advanced parameters as documented: directive name, default line
\* and the error of a value that is no integer
AdvancedParameters ==
    { [entry |-> "led_fast", name |-> "LED_FAST",
       default |-> Define("LED_FAST", <<"1", "0", "0">>),
       message |-> "Fast LED delay must be numeric"],
      [entry |-> "led_slow", name |-> "LED_SLOW",
       default |-> Define("LED_SLOW", <<"5", "0", "0">>),
       message |-> "Slow LED delay must be numeric"],
      [entry |-> "sanity_steps", name |-> "SANITY_STEPS",
       default |-> Commented("SANITY_STEPS", <<"1", "0", "0", "0", "0">>),
       message |-> "Sanity step count must be numeric"],
      [entry |-> "home_sensitivity", name |-> "HOME_SENSITIVITY",
       default |-> Commented("HOME_SENSITIVITY", <<"3", "0", "0">>),
       message |-> "Home sensitivity step count must be numeric"],
      [entry |-> "full_step_count", name |-> "FULL_STEP_COUNT",
       default |-> Commented("FULL_STEP_COUNT", <<"4", "0", "9", "6">>),
       message |-> "Full step count must be numeric"],
      [entry |-> "debounce_delay", name |-> "DEBOUNCE_DELAY",
       default |-> Commented("DEBOUNCE_DELAY", <<"1", "0">>),
       message |-> "Debounce delay must be numeric"] }

\* the lines of a list that carry a directive name
LinesNamed(lines, name) == {lines[i] : i \in {j \in 1..Len(lines) : lines[j].name = name}}

\* C34 as stated: for every advanced parameter a pass emits the documented
\* default line and no error while the override switch is off, whatever
\* the entry holds; while it is on, it emits the active directive with the
\* entered text iff the text is an integer, and otherwise exactly one error
\* and no line for the parameter
C34_Original ==
    [][passes' = passes + 1
          => LET cfg == log'[Len(log')].config_list
                 errs == last'.param_errors
             IN  \A p \in AdvancedParameters :
                    IF tt[OverrideSwitch(p.entry)] # "on"
                    THEN /\ LinesNamed(cfg, p.name) = {p.default}
                         /\ Occurrences(errs, p.message) = 0
                    ELSE IF IsInt(tt[p.entry])
                    THEN /\ LinesNamed(cfg, p.name) = {Define(p.name, tt[p.entry])}
                         /\ Occurrences(errs, p.message) = 0
                    ELSE /\ LinesNamed(cfg, p.name) = {}
                         /\ Occurrences(errs, p.message) = 1]_vars

====
